---- MODULE Spec2Model ----
(***************************************************************************)
(* Model of flask_hashfs: the FlaskHashFS extension (init_app, url_for,    *)
(* put, get, open, delete) and the urljoin helper.                         *)
(*                                                                         *)
(* A Python str is a sequence of one-character strings.  None is a value   *)
(* outside Seq(Chars).  A dict is a function whose DOMAIN is its key set,  *)
(* so that a missing key (KeyError) and setdefault are what they are in    *)
(* the code.                                                               *)
(***************************************************************************)
EXTENDS Integers, Sequences, FiniteSets, TLC

VARIABLES
    config,      \* config[a]: the dict app.config of application a
    extensions,  \* extensions[a]: the dict app.extensions of application a
    nclients,    \* number of HashFS instances constructed so far
    call,        \* the most recent call: [op, app, args]
    paths,       \* the argument list of urljoin in the most recent call
    calls,       \* the invocations made on a HashFS client by the most recent call
    ret          \* outcome of the most recent call: [kind, value]

vars == <<config, extensions, nclients, call, paths, calls, ret>>

----------------------------------------------------------------------------
(* Bounds and small input sets *)

MaxLen == 2

MaxSegLen == 4

MaxSegs == 2

MaxClients == 2

Chars == {"/", "a"}

Apps == {"app1", "app2"}

Str(n) == UNION {[1..k -> Chars] : k \in 0..n}

Strings == Str(MaxLen)

None == <<"None">>

\* flask.request.host_url is "<scheme>://<host>/": non-empty, no leading
\* slash, one trailing slash.
HostUrls == {s \in Strings : Len(s) > 0 /\ s[1] # "/" /\ s[Len(s)] = "/"}

----------------------------------------------------------------------------
(* Python primitives used by the code *)

Truthy(v) == v # None /\ v # <<>>

startswith(s, c) == Len(s) > 0 /\ s[1] = c

endswith(s, c) == Len(s) > 0 /\ s[Len(s)] = c

RECURSIVE lstrip(_, _)
lstrip(s, c) == IF startswith(s, c) THEN lstrip(Tail(s), c) ELSE s

RECURSIVE rstrip(_, _)
rstrip(s, c) == IF endswith(s, c) THEN rstrip(SubSeq(s, 1, Len(s) - 1), c) ELSE s

strip(s, c) == rstrip(lstrip(s, c), c)

RECURSIVE join(_, _)
join(sep, list) ==
    IF list = <<>> THEN <<>>
    ELSE IF Len(list) = 1 THEN list[1]
    ELSE list[1] \o sep \o join(sep, Tail(list))

KeyError == <<"KeyError">>

ValueError == <<"ValueError">>

Return(v) == [kind |-> "return", value |-> v]

Raise(e) == [kind |-> "raise", value |-> e]

EmptyDict == <<>>

setitem(d, k, v) == [x \in DOMAIN d \cup {k} |-> IF x = k THEN v ELSE d[x]]

setdefault(d, k, v) == IF k \in DOMAIN d THEN d ELSE setitem(d, k, v)

----------------------------------------------------------------------------
(* urljoin *)

NonEmpty_KeepsEmpty(ps) == ps

NonEmpty(ps) == SelectSeq(ps, Truthy)

Stripped_LeftOnly(s) == lstrip(s, "/")

Stripped(s) == strip(s, "/")

HasStripped(s) == Stripped(s) # <<>>

leading(ps) == IF ps # <<>> /\ startswith(ps[1], "/") THEN <<"/">> ELSE <<>>

trailing(ps) == IF ps # <<>> /\ endswith(ps[Len(ps)], "/") THEN <<"/">> ELSE <<>>

middle_KeepsEmpty(ps) == join(<<"/">>, [i \in 1..Len(ps) |-> strip(ps[i], "/")])

middle(ps) ==
    LET kept == SelectSeq(ps, HasStripped)
    IN  join(<<"/">>, [i \in 1..Len(kept) |-> Stripped(kept[i])])

urljoin(args) ==
    LET ps == NonEmpty(args)
    IN  IF Len(ps) = 1 THEN ps[1]
        ELSE leading(ps) \o middle(ps) \o trailing(ps)

----------------------------------------------------------------------------
(* FlaskHashFS *)

_extension_name == "hashfs"

DefaultDepth == 4

DefaultWidth == 1

DefaultAlgorithm == "sha256"

Defaults(c) ==
    LET c1 == setdefault(c,  "HASHFS_HOST", None)
        c2 == setdefault(c1, "HASHFS_PATH_PREFIX", <<>>)
        c3 == setdefault(c2, "HASHFS_ROOT_FOLDER", None)
        c4 == setdefault(c3, "HASHFS_DEPTH", DefaultDepth)
        c5 == setdefault(c4, "HASHFS_WIDTH", DefaultWidth)
    IN  setdefault(c5, "HASHFS_ALGORITHM", DefaultAlgorithm)

PrefixMissing(c) == c["HASHFS_PATH_PREFIX"] = None

PrefixInvalid_EmptyToo(c) == ~startswith(c["HASHFS_PATH_PREFIX"], "/")

PrefixInvalid(c) ==
    /\ Truthy(c["HASHFS_PATH_PREFIX"])
    /\ ~startswith(c["HASHFS_PATH_PREFIX"], "/")

RootMissing_NoneOnly(c) == c["HASHFS_ROOT_FOLDER"] = None

RootMissing(c) == ~Truthy(c["HASHFS_ROOT_FOLDER"])

HashFS(id, root, depth, width, algorithm) ==
    [id |-> id, root |-> root, depth |-> depth, width |-> width,
     algorithm |-> algorithm]

NewClient(c) ==
    HashFS(nclients + 1, c["HASHFS_ROOT_FOLDER"], c["HASHFS_DEPTH"],
           c["HASHFS_WIDTH"], c["HASHFS_ALGORITHM"])

\* init_app as it would be with the registry written before the validation,
\* and with the handle written into every application's registry
init_app_StoresFirst(a) ==
    LET c == Defaults(config[a])
    IN  /\ nclients < MaxClients
        /\ call' = [op |-> "init_app", app |-> a, args |-> <<>>]
        /\ config' = [config EXCEPT ![a] = c]
        /\ paths' = <<>>
        /\ calls' = <<>>
        /\ extensions' =
              [extensions EXCEPT ![a] =
                  setitem(@, _extension_name, [client |-> NewClient(c)])]
        /\ nclients' = nclients + 1
        /\ ret' = IF PrefixMissing(c) \/ PrefixInvalid(c) \/ RootMissing(c)
                  THEN Raise(ValueError) ELSE Return(None)

init_app_ProcessWide(a) ==
    LET c == Defaults(config[a])
        bad == PrefixMissing(c) \/ PrefixInvalid(c) \/ RootMissing(c)
    IN  /\ bad \/ nclients < MaxClients
        /\ call' = [op |-> "init_app", app |-> a, args |-> <<>>]
        /\ config' = [config EXCEPT ![a] = c]
        /\ paths' = <<>>
        /\ calls' = <<>>
        /\ IF PrefixMissing(c) \/ PrefixInvalid(c) \/ RootMissing(c)
           THEN /\ ret' = Raise(ValueError)
                /\ UNCHANGED <<extensions, nclients>>
           ELSE /\ extensions' =
                      [b \in Apps |->
                          setitem(extensions[b], _extension_name,
                                  [client |-> NewClient(c)])]
                /\ nclients' = nclients + 1
                /\ ret' = Return(None)

init_app(a) ==
    LET c == Defaults(config[a])
        bad == PrefixMissing(c) \/ PrefixInvalid(c) \/ RootMissing(c)
    IN  /\ bad \/ nclients < MaxClients
        /\ call' = [op |-> "init_app", app |-> a, args |-> <<>>]
        /\ config' = [config EXCEPT ![a] = c]
        /\ paths' = <<>>
        /\ calls' = <<>>
        /\ IF bad
           THEN /\ ret' = Raise(ValueError)
                /\ UNCHANGED <<extensions, nclients>>
           ELSE /\ extensions' =
                      [extensions EXCEPT ![a] =
                          setitem(@, _extension_name, [client |-> NewClient(c)])]
                /\ nclients' = nclients + 1
                /\ ret' = Return(None)

\* app.config[key] = value, by the application's author
SetConfig(a, key, value) ==
    /\ config' = [config EXCEPT ![a] = setitem(@, key, value)]
    /\ call' = [op |-> "config", app |-> a, args |-> <<key>>]
    /\ paths' = <<>>
    /\ calls' = <<>>
    /\ ret' = Return(None)
    /\ UNCHANGED <<extensions, nclients>>

UrlPaths_NoRootSlash(c, relpath, external, host_url) ==
    LET base == <<c["HASHFS_PATH_PREFIX"], relpath>>
    IN  IF external
        THEN <<IF Truthy(c["HASHFS_HOST"]) THEN c["HASHFS_HOST"] ELSE host_url>>
             \o base
        ELSE base

UrlPaths_HostUnlessNone(c, relpath, external, host_url) ==
    LET base == <<<<"/">>, c["HASHFS_PATH_PREFIX"], relpath>>
    IN  IF external
        THEN <<IF c["HASHFS_HOST"] # None THEN c["HASHFS_HOST"] ELSE host_url>>
             \o base
        ELSE base

UrlPaths(c, relpath, external, host_url) ==
    LET base == <<<<"/">>, c["HASHFS_PATH_PREFIX"], relpath>>
    IN  IF external
        THEN <<IF Truthy(c["HASHFS_HOST"]) THEN c["HASHFS_HOST"] ELSE host_url>>
             \o base
        ELSE base

url_for_value(c, relpath, external, host_url) ==
    urljoin(UrlPaths(c, relpath, external, host_url))

url_for(a, relpath, external, host_url) ==
    LET c == config[a]
        missing == \/ "HASHFS_PATH_PREFIX" \notin DOMAIN c
                   \/ external /\ "HASHFS_HOST" \notin DOMAIN c
    IN  /\ call' = [op |-> "url_for", app |-> a,
                    args |-> [relpath |-> relpath, external |-> external,
                              host_url |-> host_url]]
        /\ calls' = <<>>
        /\ IF missing
           THEN /\ paths' = <<>>
                /\ ret' = Raise(KeyError)
           ELSE /\ paths' = UrlPaths(c, relpath, external, host_url)
                /\ ret' = Return(url_for_value(c, relpath, external, host_url))
        /\ UNCHANGED <<config, extensions, nclients>>

\* self.client.<method>(*args, **kwargs) on the current application's client
Forward(a, op, given, method, args, kwargs, results) ==
    /\ call' = [op |-> op, app |-> a, args |-> given]
    /\ paths' = <<>>
    /\ IF _extension_name \notin DOMAIN extensions[a]
       THEN /\ calls' = <<>>
            /\ ret' = Raise(KeyError)
       ELSE /\ calls' = <<[client |-> extensions[a][_extension_name].client,
                           method |-> method, args |-> args, kwargs |-> kwargs]>>
            /\ \E r \in results : ret' = r
    /\ UNCHANGED <<config, extensions, nclients>>

\* a keyword argument the caller left out takes the signature's default
Omitted == <<"omitted">>

Default(arg, d) == IF arg = Omitted THEN d ELSE arg

put(a, file, extension) ==
    Forward(a, "put", [file |-> file, extension |-> extension], "put", <<file>>,
            [extension |-> Default(extension, None)],
            {Return(<<"HashAddress">>)})

get(a, file) ==
    Forward(a, "get", [file |-> file], "get", <<file>>, EmptyDict,
            {Return(<<"HashAddress">>), Return(None)})

open_DefaultModeOnly(a, file, mode) ==
    Forward(a, "open", [file |-> file, mode |-> mode], "open", <<file>>,
            [mode |-> <<"r", "b">>],
            {Return(<<"Buffer">>), Raise(<<"IOError">>)})

open(a, file, mode) ==
    Forward(a, "open", [file |-> file, mode |-> mode], "open", <<file>>,
            [mode |-> Default(mode, <<"r", "b">>)],
            {Return(<<"Buffer">>), Raise(<<"IOError">>)})

delete(a, file) ==
    Forward(a, "delete", [file |-> file], "delete", <<file>>, EmptyDict,
            {Return(None)})

----------------------------------------------------------------------------
(* Specifications *)

NoCall == [op |-> "none", app |-> "none", args |-> <<>>]

Fresh ==
    /\ extensions = [a \in Apps |-> EmptyDict]
    /\ nclients = 0
    /\ paths = <<>>
    /\ calls = <<>>
    /\ ret = Return(None)

(* The application's life: configuration assignments, init_app and the    *)
(* extension's methods, on two applications, in any order.                *)

Assignable ==
    [HASHFS_HOST |-> {<<"a">>},
     HASHFS_PATH_PREFIX |-> {None, <<>>, <<"/", "a">>, <<"a">>},
     HASHFS_ROOT_FOLDER |-> {<<>>, <<"a">>}]

Files == {<<"f">>}

Extensions == {Omitted, <<".", "t">>}

Modes == {Omitted, <<"r", "+">>}

Init ==
    /\ config = [a \in Apps |-> EmptyDict]
    /\ call = NoCall
    /\ Fresh

Next ==
    \E a \in Apps :
        \/ \E key \in DOMAIN Assignable :
               \E value \in Assignable[key] : SetConfig(a, key, value)
        \/ init_app(a)
        \/ \E external \in BOOLEAN : url_for(a, <<"a">>, external, <<"a", "/">>)
        \/ \E file \in Files : \E extension \in Extensions : put(a, file, extension)
        \/ \E file \in Files : get(a, file)
        \/ \E file \in Files : \E mode \in Modes : open(a, file, mode)
        \/ \E file \in Files : delete(a, file)

Spec == Init /\ [][Next]_vars

(* One application whose configuration is any the author may have         *)
(* assigned before the call.                                              *)

Absent == <<"absent">>

Entry(key, value) == IF value = Absent THEN EmptyDict ELSE key :> value

Configs(roots) ==
    {Entry("HASHFS_HOST", h) @@ Entry("HASHFS_PATH_PREFIX", p)
         @@ Entry("HASHFS_ROOT_FOLDER", r) :
       h \in Strings \cup {None, Absent},
       p \in Strings \cup {None, Absent},
       r \in roots}

TestApp == "app1"

(* init_app on it, repeatedly.                                            *)

InitInit ==
    /\ \E c \in Configs({Absent, None, <<>>, <<"a">>}) :
           config = [a \in Apps |-> c]
    /\ call = NoCall
    /\ Fresh

NextInit == init_app(TestApp)

SpecInit == InitInit /\ [][NextInit]_vars

(* url_for on it, with any relative path, flag and request origin.        *)

InitUrl ==
    /\ \E c \in Configs({Absent, <<"a">>}) : config = [a \in Apps |-> c]
    /\ call = NoCall
    /\ Fresh

NextUrl ==
    \E relpath \in Strings : \E external \in BOOLEAN : \E host_url \in HostUrls :
        url_for(TestApp, relpath, external, host_url)

SpecUrl == InitUrl /\ [][NextUrl]_vars

(* urljoin alone, on every argument list within the bounds.               *)

Segments == Str(MaxSegLen)

ArgLists == UNION {[1..k -> Segments] : k \in 0..MaxSegs}

Pending == [kind |-> "pending", value |-> <<>>]

InitJoin ==
    /\ paths \in ArgLists
    /\ call = [op |-> "urljoin", app |-> "none", args |-> <<>>]
    /\ ret = Pending
    /\ config = [a \in Apps |-> EmptyDict]
    /\ extensions = [a \in Apps |-> EmptyDict]
    /\ nclients = 0
    /\ calls = <<>>

CallUrljoin ==
    /\ call.op = "urljoin"
    /\ ret = Pending
    /\ ret' = Return(urljoin(paths))
    /\ UNCHANGED <<config, extensions, nclients, call, paths, calls>>

NextJoin == CallUrljoin

SpecJoin == InitJoin /\ [][NextJoin]_vars

----------------------------------------------------------------------------
(* Vocabulary of the properties, written without the operators above *)

StartsSlash(s) == s # <<>> /\ s[1] = "/"

EndsSlash(s) == s # <<>> /\ s[Len(s)] = "/"

HasDoubleSlash(s) == \E i \in 1..(Len(s) - 1) : s[i] = "/" /\ s[i + 1] = "/"

OnlySlashes(s) == \A i \in 1..Len(s) : s[i] = "/"

\* a slash run with a non-slash character somewhere before it and after it
InnerDoubleSlash(s) ==
    \E i \in 1..(Len(s) - 1) :
        /\ s[i] = "/" /\ s[i + 1] = "/"
        /\ \E j \in 1..(i - 1) : s[j] # "/"
        /\ \E k \in (i + 2)..Len(s) : s[k] # "/"

RECURSIVE WithoutTrailingSlashes(_)
WithoutTrailingSlashes(s) ==
    IF EndsSlash(s) THEN WithoutTrailingSlashes(SubSeq(s, 1, Len(s) - 1)) ELSE s

Filled == {i \in 1..Len(paths) : paths[i] # <<>>}

FirstFilled == CHOOSE i \in Filled : \A j \in Filled : i <= j

LastFilled == CHOOSE i \in Filled : \A j \in Filled : j <= i

Joined == call.op = "urljoin" /\ ret.kind = "return"

Stored(a) == _extension_name \in DOMAIN extensions[a]

StoredNext(a) == _extension_name \in DOMAIN extensions'[a]

Client(a) == extensions[a][_extension_name].client

PrefixOf(a) == config[a]["HASHFS_PATH_PREFIX"]

HostOf(a) == config[a]["HASHFS_HOST"]

RootOf(a) == config[a]["HASHFS_ROOT_FOLDER"]

PrefixOk(p) == p = <<>> \/ (p # None /\ StartsSlash(p))

RootOk(r) == r # None /\ r # <<>>

Validated(c) ==
    /\ {"HASHFS_PATH_PREFIX", "HASHFS_ROOT_FOLDER"} \subseteq DOMAIN c
    /\ PrefixOk(c["HASHFS_PATH_PREFIX"])
    /\ RootOk(c["HASHFS_ROOT_FOLDER"])

UrlReturned == call.op = "url_for" /\ ret.kind = "return"

\* the configured host when it is a non-empty string, else the request origin
HostOrOrigin ==
    IF HostOf(call.app) \notin {None, <<>>} THEN HostOf(call.app)
    ELSE call.args.host_url

----------------------------------------------------------------------------
(* C1: for an argument list with a non-empty segment, urljoin's output     *)
(* starts with "/" iff the first non-empty segment does, and ends with "/" *)
(* iff the last non-empty segment does.                                    *)
C1_LeadingTrailing ==
    (Joined /\ Filled # {}) =>
        /\ StartsSlash(ret.value) <=> StartsSlash(paths[FirstFilled])
        /\ EndsSlash(ret.value) <=> EndsSlash(paths[LastFilled])

C1_Witness ==
    /\ Joined
    /\ Len(paths) = 2 /\ paths[1] = <<>> /\ paths[2] = <<"/", "a", "/">>
    /\ ret.value = <<"/", "a", "/">>

(* C2 as stated: urljoin's output never holds two consecutive "/".         *)
C2_NoDoubleSlash == Joined => ~HasDoubleSlash(ret.value)

(* C2 as amended: urljoin collapses only the slash runs at the ends of     *)
(* segments.  Its output holds two consecutive "/" exactly when the one    *)
(* non-empty segment (returned unchanged) holds them, or when, of two or   *)
(* more non-empty segments, one holds them between two of its non-slash    *)
(* characters or all are made of slashes only.                             *)
C2_SlashRuns ==
    Joined =>
        (HasDoubleSlash(ret.value) <=>
            \/ Cardinality(Filled) = 1 /\ HasDoubleSlash(paths[FirstFilled])
            \/ /\ Cardinality(Filled) >= 2
               /\ \/ \E i \in Filled : InnerDoubleSlash(paths[i])
                  \/ \A i \in Filled : OnlySlashes(paths[i]))

C2_Witness ==
    /\ Joined
    /\ paths = << <<"a", "/", "/">>, <<"/", "/", "a">> >>
    /\ ret.value = <<"a", "/", "a">>

(* C3: init_app raises the configuration error (ValueError) exactly when,  *)
(* with the defaults applied, the prefix is None, or is non-empty without  *)
(* a leading "/", or the root folder is None or empty; otherwise it        *)
(* returns and the registry holds the one client it has just built.        *)
C3_InitFailsExactly ==
    call.op = "init_app" =>
        LET a == call.app
            bad == \/ PrefixOf(a) = None
                   \/ PrefixOf(a) # <<>> /\ PrefixOf(a)[1] # "/"
                   \/ RootOf(a) = None \/ RootOf(a) = <<>>
        IN  IF bad THEN ret = Raise(ValueError)
            ELSE /\ ret = Return(None)
                 /\ DOMAIN extensions[a] = {_extension_name}
                 /\ Client(a).id = nclients
                 /\ Client(a).root = RootOf(a)

C3_Witness ==
    /\ call.op = "init_app"
    /\ PrefixOf(call.app) = <<"a", "/">>
    /\ RootOf(call.app) = <<"a">>
    /\ ret = Raise(ValueError)
    /\ ~Stored(call.app)

(* C4 as stated: when the latest init_app on an application failed, its    *)
(* registry holds no client handle.                                        *)
C4_NoHandleAfterFailure ==
    (call.op = "init_app" /\ ret.kind = "raise") => ~Stored(call.app)

(* C4 as amended: a failed init_app writes nothing to any registry: an     *)
(* application without a handle still has none, and a handle stored by an  *)
(* earlier successful init_app is still there.                             *)
C4_FailureLeavesRegistry ==
    [][(call'.op = "init_app" /\ ret'.kind = "raise") =>
          (extensions' = extensions /\ nclients' = nclients)]_vars

C4_Witness ==
    /\ call.op = "init_app" /\ ret = Raise(ValueError)
    /\ Stored(call.app)
    /\ \E b \in Apps : ~Stored(b)

(* C5 as stated: url_for returns urljoin over [host-or-origin, prefix,     *)
(* relpath] when external and over [prefix, relpath] when not.             *)
C5_ListWithoutSlash ==
    UrlReturned =>
        ret.value =
            urljoin(IF call.args.external
                    THEN <<HostOrOrigin, PrefixOf(call.app), call.args.relpath>>
                    ELSE <<PrefixOf(call.app), call.args.relpath>>)

(* C5 as amended: url_for returns urljoin over [host-or-origin, "/",       *)
(* prefix, relpath] when external and over ["/", prefix, relpath] when     *)
(* not: a "/" segment always precedes the prefix.  With external true and  *)
(* a non-empty prefix or relpath this equals urljoin over [host-or-origin, *)
(* prefix, relpath].                                                       *)
C5_ListWithSlash ==
    UrlReturned =>
        LET p == PrefixOf(call.app)
            r == call.args.relpath
        IN  /\ paths = IF call.args.external
                       THEN <<HostOrOrigin, <<"/">>, p, r>>
                       ELSE <<<<"/">>, p, r>>
            /\ ret.value = urljoin(paths)
            /\ (call.args.external /\ (p \notin {None, <<>>} \/ r # <<>>)) =>
                   ret.value = urljoin(<<HostOrOrigin, p, r>>)

C5_Witness ==
    /\ UrlReturned
    /\ ~call.args.external
    /\ PrefixOf(call.app) = <<>>
    /\ call.args.relpath = <<"a">>
    /\ ret.value = <<"/", "a">>

(* C6 as stated: with external true the first segment is HASHFS_HOST       *)
(* whenever it is not None, else the request origin; with external false   *)
(* the result depends on neither.                                          *)
C6_HostUnlessNone ==
    UrlReturned =>
        ret.value =
            urljoin(IF call.args.external
                    THEN <<IF HostOf(call.app) # None THEN HostOf(call.app)
                           ELSE call.args.host_url,
                           <<"/">>, PrefixOf(call.app), call.args.relpath>>
                    ELSE <<<<"/">>, PrefixOf(call.app), call.args.relpath>>)

(* C6 as amended: with external true the first segment is HASHFS_HOST when *)
(* it is a non-empty string, and the request origin when it is None or     *)
(* empty; with external false the list holds neither and the result        *)
(* depends on neither.                                                     *)
C6_HostIfNonEmpty ==
    UrlReturned =>
        IF call.args.external
        THEN /\ Len(paths) = 4
             /\ paths[1] = IF HostOf(call.app) = None \/ HostOf(call.app) = <<>>
                           THEN call.args.host_url
                           ELSE HostOf(call.app)
        ELSE /\ Len(paths) = 3
             /\ \A h \in Strings \cup {None} : \A o \in HostUrls :
                    ret.value =
                        url_for_value([config[call.app] EXCEPT !["HASHFS_HOST"] = h]
                                      , call.args.relpath, FALSE, o)

C6_Witness ==
    /\ UrlReturned
    /\ call.args.external
    /\ HostOf(call.app) = <<>>
    /\ paths[1] = call.args.host_url
    /\ StartsSlash(ret.value) = FALSE

(* C7: put, get, open and delete on an application that holds a client     *)
(* make exactly one invocation, of the same-named method of that client,   *)
(* with the caller's file and keyword argument (extension None, mode "rb"  *)
(* when left out), and change neither the registries nor the               *)
(* configuration.                                                          *)
C7_Forwarded ==
    [][(call'.op \in {"put", "get", "open", "delete"} /\ Stored(call'.app)) =>
          /\ extensions' = extensions
          /\ config' = config
          /\ Len(calls') = 1
          /\ calls'[1].client = Client(call'.app)
          /\ calls'[1].method = call'.op
          /\ calls'[1].args = <<call'.args.file>>
          /\ calls'[1].kwargs =
                CASE call'.op = "put" ->
                       [extension |-> IF call'.args.extension = Omitted THEN None
                                      ELSE call'.args.extension]
                  [] call'.op = "open" ->
                       [mode |-> IF call'.args.mode = Omitted THEN <<"r", "b">>
                                 ELSE call'.args.mode]
                  [] OTHER -> <<>>]_vars

C7_Witness ==
    /\ call.op = "open"
    /\ call.args.mode = <<"r", "+">>
    /\ \A b \in Apps : Stored(b)
    /\ Len(calls) = 1
    /\ calls[1].client = Client(call.app)
    /\ calls[1].kwargs.mode = <<"r", "+">>

(* C8 as stated: once an application holds a client handle, no step        *)
(* replaces or removes it.                                                 *)
C8_WrittenOnce ==
    [][\A a \in Apps : Stored(a) => extensions'[a] = extensions[a]]_vars

(* C8 as amended: a stored handle is never removed, and it is replaced     *)
(* only by a successful init_app on the same application; url_for, put,    *)
(* get, open, delete, a failed init_app and calls on another application   *)
(* leave it as it is.                                                      *)
C8_ReplacedOnlyByInit ==
    [][\A a \in Apps :
          Stored(a) =>
              /\ StoredNext(a)
              /\ extensions'[a] # extensions[a] =>
                    /\ call'.op = "init_app" /\ call'.app = a
                    /\ ret' = Return(None)]_vars

C8_Witness ==
    /\ call.op = "init_app" /\ ret = Return(None)
    /\ Stored(call.app)
    /\ Client(call.app).id = 2
    /\ \A b \in Apps \ {call.app} : ~Stored(b)

(* C9 as stated: whenever an application holds a client handle, its prefix *)
(* is "" or begins with "/" and its root folder is non-empty.              *)
C9_StoredImpliesValid == \A a \in Apps : Stored(a) => Validated(config[a])

(* C9 as amended: the client an application holds was built with a         *)
(* non-empty root folder, and when init_app stores it the prefix is "" or  *)
(* begins with "/" and the root folder is non-empty; this stays so through *)
(* init_app, url_for, put, get, open and delete, and only a later          *)
(* configuration assignment to that application breaks it.                 *)
C9_ValidUntilAssigned ==
    [][\A a \in Apps :
          StoredNext(a) =>
              /\ RootOk(extensions'[a][_extension_name].client.root)
              /\ ~Validated(config'[a]) =>
                    /\ Stored(a)
                    /\ \/ ~Validated(config[a])
                       \/ call'.op = "config" /\ call'.app = a]_vars

C9_Witness ==
    /\ UrlReturned
    /\ Stored(call.app)
    /\ PrefixOf(call.app) = <<"a">>
    /\ ret.value = <<"/", "a", "/", "a">>

(* C10: for a host-or-origin that is non-empty without a leading "/", a    *)
(* prefix that is "" or begins with "/", and a relpath with a non-slash    *)
(* character, the external URL is the host-or-origin without its trailing  *)
(* slashes followed by the internal URL, and the internal URL starts with  *)
(* exactly one "/".                                                        *)
C10_ExternalIsHostPlusInternal ==
    (/\ UrlReturned
     /\ "HASHFS_HOST" \in DOMAIN config[call.app]
     /\ ~StartsSlash(HostOrOrigin)
     /\ PrefixOk(PrefixOf(call.app))
     /\ ~OnlySlashes(call.args.relpath)) =>
        LET c == config[call.app]
            r == call.args.relpath
            o == call.args.host_url
            internal == IF call.args.external THEN url_for_value(c, r, FALSE, o)
                        ELSE ret.value
            external == IF call.args.external THEN ret.value
                        ELSE url_for_value(c, r, TRUE, o)
        IN  /\ external = WithoutTrailingSlashes(HostOrOrigin) \o internal
            /\ internal[1] = "/"
            /\ internal[2] # "/"

C10_Witness ==
    /\ UrlReturned
    /\ call.args.external
    /\ HostOf(call.app) = <<"a", "/">>
    /\ PrefixOf(call.app) = <<"/", "a">>
    /\ call.args.relpath = <<"a", "/">>
    /\ ret.value = <<"a", "/", "a", "/", "a", "/">>

====
